---- MODULE Spec2Model ----
(***************************************************************************)
(* Model of src/ibge/mod.rs: the IBGE client of brasilapi-rs.              *)
(*                                                                         *)
(* A String is a sequence of pieces; format! and join concatenate with \o. *)
(* A name (Municipality.nome, city_name) is a sequence of characters, one  *)
(* string per character; "A~" and "a~" stand for the non-ASCII letters     *)
(* U+00C3 and U+00E3 (A with tilde, upper and lower case).                 *)
(* Option<T> is None or Some(x); Result<T, E> is Ok(x) or Err(e); a call   *)
(* that unwinds from a failed unwrap() ends in Panic(at).                  *)
(***************************************************************************)
EXTENDS Integers, Sequences, FiniteSets, TLC

\* ------------------------------------------------------------------ bounds
NumCalls == 2
MaxProviders == 2
MaxItems == 2

Calls == 1..NumCalls

\* ------------------------------------------------- Option, Result, panic
None == [some |-> FALSE]
Some(x) == [some |-> TRUE, v |-> x]
Ok(x) == [tag |-> "Ok", val |-> x]
Err(e) == [tag |-> "Err", err |-> e]
Panic(at) == [tag |-> "Panic", at |-> at]
Pending == [tag |-> "Pending"]

RECURSIVE SeqsUpTo(_, _)
SeqsUpTo(S, n) ==
    IF n = 0 THEN {<<>>}
    ELSE LET shorter == SeqsUpTo(S, n - 1)
         IN shorter \cup {Append(s, x) : s \in shorter, x \in S}

\* --------------------------------------------------------- domain records
\* struct Municipality { nome, codigo_ibge }
Municipality(nome, codigo_ibge) == [nome |-> nome, codigo_ibge |-> codigo_ibge]

\* Municipality::get_name
get_name(m) == m.nome

\* struct StateRegion { id, sigla, nome }
StateRegion(id, sigla, nome) == [id |-> id, sigla |-> sigla, nome |-> nome]

\* struct State { id, sigla, nome, regiao }
State(id, sigla, nome, regiao) ==
    [id |-> id, sigla |-> sigla, nome |-> nome, regiao |-> regiao]

\* ------------------------------------------------ MunicipalitiesProvider
MunicipalitiesProvider == {"DadosAbertos", "Gov", "Wikipedia"}

\* MunicipalitiesProvider::to_string
to_string(p) ==
    CASE p = "DadosAbertos" -> "dados-abertos-br"
      [] p = "Gov" -> "gov"
      [] p = "Wikipedia" -> "wikipedia"

\* join, were it to drop a repeated neighbour
RECURSIVE join_dedup(_, _)
join_dedup(v, sep) ==
    IF Len(v) = 0 THEN <<>>
    ELSE IF Len(v) = 1 THEN <<v[1]>>
    ELSE IF v[1] = v[2] THEN join_dedup(Tail(v), sep)
    ELSE <<v[1], sep>> \o join_dedup(Tail(v), sep)

\* [&str]::join(sep): the items with sep between neighbours
RECURSIVE join(_, _)
join(v, sep) ==
    IF Len(v) = 0 THEN <<>>
    ELSE IF Len(v) = 1 THEN <<v[1]>>
    ELSE <<v[1], sep>> \o join(Tail(v), sep)

\* ------------------------------------------------------------ IbgeService
\* crate::spec::BRASIL_API_URL: the fixed default base url, kept opaque
BRASIL_API_URL == "{BRASIL_API_URL}"

\* IbgeService::new
IbgeService_new(base_url) == [base_url |-> base_url]

\* get_municipalities_request, up to the GET: the providers string and the url
get_municipalities_url(self, uf, providers) ==
    LET joined == IF providers.some
                  THEN join([i \in 1..Len(providers.v) |-> to_string(providers.v[i])], ",")
                  ELSE <<>>
    IN <<self.base_url, "/api/ibge/municipios/v1/", uf, "?providers=">> \o joined

\* get_all_states_request, up to the GET
get_all_states_url(self) == <<self.base_url, "/api/ibge/uf/v1">>

\* get_state_request's url, were the code left out of the path
get_state_url_no_code(self, code) == <<self.base_url, "/api/ibge/uf/v1">>

\* get_state_request, up to the GET
get_state_url(self, code) == <<self.base_url, "/api/ibge/uf/v1/", code>>

\* ------------------------------------------------------ crate::error::Error
\* StatusCode::is_success
is_success(status) == status \in 200..299

\* Error::from_response: the response on a success status, else an application error
from_response(response) ==
    IF is_success(response.status)
    THEN Ok(response)
    ELSE Err([kind |-> "Application", status |-> response.status])

\* Error::from_error: a transport error wrapping the cause
from_error(e) == [kind |-> "Transport", cause |-> e]

\* the match on reqwest::get(&url).await of get_municipalities_request
get_municipalities_request(got) ==
    IF got.tag = "Ok" THEN from_response(got.val) ELSE Err(from_error(got.err))

\* the match on reqwest::get(&url).await of get_all_states_request
get_all_states_request(got) ==
    IF got.tag = "Ok" THEN from_response(got.val) ELSE Err(from_error(got.err))

\* get_state_request, were the response handed back without the mapper
get_state_request_unmapped(got) ==
    IF got.tag = "Ok" THEN Ok(got.val) ELSE Err(from_error(got.err))

\* the match on reqwest::get(&url).await of get_state_request
get_state_request(got) ==
    IF got.tag = "Ok" THEN from_response(got.val) ELSE Err(from_error(got.err))

\* ------------------------------------------------- u8::eq_ignore_ascii_case
AsciiUpper == <<"A", "B", "C", "D", "E", "F", "G", "H", "I", "J", "K", "L", "M",
                "N", "O", "P", "Q", "R", "S", "T", "U", "V", "W", "X", "Y", "Z">>
AsciiLower == <<"a", "b", "c", "d", "e", "f", "g", "h", "i", "j", "k", "l", "m",
                "n", "o", "p", "q", "r", "s", "t", "u", "v", "w", "x", "y", "z">>

\* to_ascii_lowercase: 'A'..='Z' to 'a'..='z', every other character unchanged
to_ascii_lowercase(ch) ==
    IF \E i \in 1..Len(AsciiUpper) : AsciiUpper[i] = ch
    THEN AsciiLower[CHOOSE i \in 1..Len(AsciiUpper) : AsciiUpper[i] = ch]
    ELSE ch

\* str::eq_ignore_ascii_case
eq_ignore_ascii_case(a, b) ==
    /\ Len(a) = Len(b)
    /\ \A i \in 1..Len(a) : to_ascii_lowercase(a[i]) = to_ascii_lowercase(b[i])

\* ------------------------------------------------ bodies and serde_json
\* A body is text that is no JSON, a JSON array of objects, or a JSON object;
\* an object is a record of its fields.
BadJson == [json |-> "invalid"]
JsonArray(items) == [json |-> "array", items |-> items]
JsonObject(obj) == [json |-> "object", obj |-> obj]

\* #[derive(Deserialize)] struct Municipality: both fields required, others ignored
de_Municipality(o) ==
    IF {"nome", "codigo_ibge"} \subseteq DOMAIN o
    THEN Ok(Municipality(o.nome, o.codigo_ibge))
    ELSE Err("missing field")

\* #[derive(Deserialize)] struct StateRegion
de_StateRegion(o) ==
    IF {"id", "sigla", "nome"} \subseteq DOMAIN o
    THEN Ok(StateRegion(o.id, o.sigla, o.nome))
    ELSE Err("missing field")

\* #[derive(Deserialize)] struct State
de_State(o) ==
    IF {"id", "sigla", "nome", "regiao"} \subseteq DOMAIN o
    THEN LET r == de_StateRegion(o.regiao)
         IN IF r.tag = "Ok" THEN Ok(State(o.id, o.sigla, o.nome, r.val)) ELSE r
    ELSE Err("missing field")

\* serde_json::from_str::<Vec<Municipality>>
from_str_VecMunicipality(body) ==
    IF body.json # "array" THEN Err("invalid type")
    ELSE IF \E i \in 1..Len(body.items) : de_Municipality(body.items[i]).tag = "Err"
    THEN Err("missing field")
    ELSE Ok([i \in 1..Len(body.items) |-> de_Municipality(body.items[i]).val])

\* serde_json::from_str::<Vec<State>>
from_str_VecState(body) ==
    IF body.json # "array" THEN Err("invalid type")
    ELSE IF \E i \in 1..Len(body.items) : de_State(body.items[i]).tag = "Err"
    THEN Err("missing field")
    ELSE Ok([i \in 1..Len(body.items) |-> de_State(body.items[i]).val])

\* serde_json::from_str::<State>
from_str_State(body) ==
    IF body.json # "object" THEN Err("invalid type") ELSE de_State(body.obj)

\* ------------------------------------------- the public query functions
\* get_municipalities after the request: text().await.unwrap(), from_str(..).unwrap()
get_municipalities_body(t) ==
    IF t.tag = "Err" THEN Panic("text")
    ELSE LET municipalities == from_str_VecMunicipality(t.val)
         IN IF municipalities.tag = "Err" THEN Panic("from_str") ELSE Ok(municipalities.val)

\* get_all_states after the request
get_all_states_body(t) ==
    IF t.tag = "Err" THEN Panic("text")
    ELSE LET states == from_str_VecState(t.val)
         IN IF states.tag = "Err" THEN Panic("from_str") ELSE Ok(states.val)

\* get_state after the request
get_state_body(t) ==
    IF t.tag = "Err" THEN Panic("text")
    ELSE LET state == from_str_State(t.val)
         IN IF state.tag = "Err" THEN Panic("from_str") ELSE Ok(state.val)

\* Iterator::find over the municipalities with the closure of line 175
find(municipalities, city_name) ==
    LET hits == {i \in 1..Len(municipalities) :
                    eq_ignore_ascii_case(get_name(municipalities[i]), city_name)}
    IN IF hits = {} THEN None
       ELSE Some(municipalities[CHOOSE i \in hits : \A j \in hits : i <= j])

\* find_municipality_by_state_and_name after get_municipalities(..).await
find_municipality_by_state_and_name_body(r, city_name) ==
    IF r.tag = "Ok" THEN Ok(find(r.val, city_name)) ELSE r

\* ------------------------------------------------------------------ state
\* One entry per call of a public query function (a future being polled):
\*   pc        where the call stands: "idle", "await_response" (suspended in
\*             reqwest::get), "await_body" (suspended in text()), "done"
\*   call      the function called and its arguments
\*   service   the call's ibge_service
\*   sent      the urls the call has issued a GET for, in order
\*   got       what reqwest::get resolved to for the call
\*   response  what the service's request method returned
\*   text      what response.text() resolved to for the call
\*   result    how the call ended: Ok(value), Err(error) or Panic
VARIABLES pc, call, service, sent, got, response, text, result

vars == <<pc, call, service, sent, got, response, text, result>>

Init ==
    /\ pc = [c \in Calls |-> "idle"]
    /\ call = [c \in Calls |-> [fn |-> "none"]]
    /\ service = [c \in Calls |-> None]
    /\ sent = [c \in Calls |-> <<>>]
    /\ got = [c \in Calls |-> Pending]
    /\ response = [c \in Calls |-> Pending]
    /\ text = [c \in Calls |-> Pending]
    /\ result = [c \in Calls |-> Pending]

\* What the upstream and the transport can answer.
Statuses == {200, 404}
GetAnswers == {Err("connect")} \cup {Ok([status |-> s]) : s \in Statuses}
TextAnswers(B) == {Err("decode")} \cup {Ok(b) : b \in B}

\* ----------------------------------------------- the call up to its GET
\* The call constructs its service, builds the url and suspends in reqwest::get.
start(c, args, ibge_service, url) ==
    /\ pc' = [pc EXCEPT ![c] = "await_response"]
    /\ call' = [call EXCEPT ![c] = args]
    /\ service' = [service EXCEPT ![c] = Some(ibge_service)]
    /\ sent' = [sent EXCEPT ![c] = Append(@, url)]
    /\ UNCHANGED <<got, response, text, result>>

get_municipalities_start(c, uf, providers) ==
    /\ pc[c] = "idle"
    /\ LET ibge_service == IbgeService_new(BRASIL_API_URL)
       IN start(c, [fn |-> "get_municipalities", uf |-> uf, providers |-> providers],
             ibge_service, get_municipalities_url(ibge_service, uf, providers))

find_municipality_by_state_and_name_start(c, uf, city_name, providers) ==
    /\ pc[c] = "idle"
    /\ LET ibge_service == IbgeService_new(BRASIL_API_URL)
       IN start(c, [fn |-> "find_municipality_by_state_and_name", uf |-> uf,
                 city_name |-> city_name, providers |-> providers],
             ibge_service, get_municipalities_url(ibge_service, uf, providers))

get_all_states_start(c) ==
    /\ pc[c] = "idle"
    /\ LET ibge_service == IbgeService_new(BRASIL_API_URL)
       IN start(c, [fn |-> "get_all_states"], ibge_service, get_all_states_url(ibge_service))

get_state_start(c, code) ==
    /\ pc[c] = "idle"
    /\ LET ibge_service == IbgeService_new(BRASIL_API_URL)
       IN start(c, [fn |-> "get_state", code |-> code],
             ibge_service, get_state_url(ibge_service, code))

\* ------------------------------------- the call resumed with the response
\* try_response, were the Err not propagated: the call goes on to read the body
try_response_unchecked(c, answer, r) ==
    /\ got' = [got EXCEPT ![c] = answer]
    /\ response' = [response EXCEPT ![c] = r]
    /\ pc' = [pc EXCEPT ![c] = "await_body"]
    /\ UNCHANGED <<call, service, sent, text, result>>

\* try_response, were the response kept in a slot shared by the calls in flight
try_response_shared(c, answer, r) ==
    LET others == {d \in Calls \ {c} : pc[d] = "await_body"}
        seen == IF others = {} THEN r ELSE response[CHOOSE d \in others : TRUE]
    IN /\ got' = [got EXCEPT ![c] = answer]
       /\ response' = [response EXCEPT ![c] = seen]
       /\ IF seen.tag = "Err"
          THEN /\ pc' = [pc EXCEPT ![c] = "done"]
               /\ result' = [result EXCEPT ![c] = seen]
          ELSE /\ pc' = [pc EXCEPT ![c] = "await_body"]
               /\ UNCHANGED result
       /\ UNCHANGED <<call, service, sent, text>>

\* `let response = <request>.await?;`: an Err ends the call with that Err,
\* an Ok goes on to response.text() and suspends there.
try_response(c, answer, r) ==
    /\ got' = [got EXCEPT ![c] = answer]
    /\ response' = [response EXCEPT ![c] = r]
    /\ IF r.tag = "Err"
       THEN /\ pc' = [pc EXCEPT ![c] = "done"]
            /\ result' = [result EXCEPT ![c] = r]
       ELSE /\ pc' = [pc EXCEPT ![c] = "await_body"]
            /\ UNCHANGED result
    /\ UNCHANGED <<call, service, sent, text>>

get_municipalities_response(c, answer) ==
    /\ pc[c] = "await_response"
    /\ call[c].fn \in {"get_municipalities", "find_municipality_by_state_and_name"}
    /\ try_response(c, answer, get_municipalities_request(answer))

get_all_states_response(c, answer) ==
    /\ pc[c] = "await_response"
    /\ call[c].fn = "get_all_states"
    /\ try_response(c, answer, get_all_states_request(answer))

\* get_state_response, were a failed GET issued once more
get_state_response_retry(c, answer) ==
    /\ pc[c] = "await_response"
    /\ call[c].fn = "get_state"
    /\ IF answer.tag = "Err" /\ Len(sent[c]) < 2
       THEN /\ sent' = [sent EXCEPT ![c] = Append(@, get_state_url(service[c].v, call[c].code))]
            /\ UNCHANGED <<pc, call, service, got, response, text, result>>
       ELSE try_response(c, answer, get_state_request(answer))

get_state_response(c, answer) ==
    /\ pc[c] = "await_response"
    /\ call[c].fn = "get_state"
    /\ try_response(c, answer, get_state_request(answer))

\* ----------------------------------------- the call resumed with the body
\* finish, were the body read into a buffer the calls share and never clear:
\* a body read after another one no longer parses
finish_shared_buffer(c, t, r) ==
    /\ pc[c] = "await_body"
    /\ pc' = [pc EXCEPT ![c] = "done"]
    /\ text' = [text EXCEPT ![c] = t]
    /\ result' = [result EXCEPT ![c] =
                     IF t.tag = "Ok" /\ \E d \in Calls \ {c} : text[d].tag = "Ok"
                     THEN Panic("from_str") ELSE r]
    /\ UNCHANGED <<call, service, sent, got, response>>

\* `response.text().await.unwrap()` and `from_str(&body).unwrap()`, then the return
finish(c, t, r) ==
    /\ pc[c] = "await_body"
    /\ pc' = [pc EXCEPT ![c] = "done"]
    /\ text' = [text EXCEPT ![c] = t]
    /\ result' = [result EXCEPT ![c] = r]
    /\ UNCHANGED <<call, service, sent, got, response>>

get_municipalities_text(c, t) ==
    /\ call[c].fn = "get_municipalities"
    /\ finish(c, t, get_municipalities_body(t))

find_municipality_by_state_and_name_text(c, t) ==
    /\ call[c].fn = "find_municipality_by_state_and_name"
    /\ finish(c, t, find_municipality_by_state_and_name_body(
                        get_municipalities_body(t), call[c].city_name))

get_all_states_text(c, t) ==
    /\ call[c].fn = "get_all_states"
    /\ finish(c, t, get_all_states_body(t))

get_state_text(c, t) ==
    /\ call[c].fn = "get_state"
    /\ finish(c, t, get_state_body(t))

\* ------------------------------------------------------- specifications
\* One step of call c, its arguments drawn from U (state codes), P (provider
\* lists), N (city names) and the bodies the upstream may send from B.
Step(c, U, P, N, B) ==
    \/ \E uf \in U, providers \in P : get_municipalities_start(c, uf, providers)
    \/ \E uf \in U, city_name \in N, providers \in P :
          find_municipality_by_state_and_name_start(c, uf, city_name, providers)
    \/ get_all_states_start(c)
    \/ \E code \in U : get_state_start(c, code)
    \/ \E answer \in GetAnswers : get_municipalities_response(c, answer)
    \/ \E answer \in GetAnswers : get_all_states_response(c, answer)
    \/ \E answer \in GetAnswers : get_state_response(c, answer)
    \/ \E t \in TextAnswers(B) : get_municipalities_text(c, t)
    \/ \E t \in TextAnswers(B) : find_municipality_by_state_and_name_text(c, t)
    \/ \E t \in TextAnswers(B) : get_all_states_text(c, t)
    \/ \E t \in TextAnswers(B) : get_state_text(c, t)

\* Sample data.
SaoPaulo == <<"S", "A~", "O">>
SP == [id |-> 35, sigla |-> <<"S", "P">>, nome |-> SaoPaulo,
       regiao |-> [id |-> 3, sigla |-> <<"S", "E">>, nome |-> <<"S", "u", "d">>]]
StateCodes == {"SP", "XX"}
Bodies ==
    { BadJson,
      JsonArray(<<>>),
      JsonArray(<<[nome |-> SaoPaulo, codigo_ibge |-> "3550308"]>>),
      JsonArray(<<[nome |-> SaoPaulo]>>),
      JsonArray(<<SP>>),
      JsonObject(SP) }

\* Concurrent calls: every interleaving of NumCalls calls at their suspension points.
Next == \E c \in Calls : Step(c, StateCodes, {None}, {SaoPaulo}, Bodies)

Spec == Init /\ [][Next]_vars

\* One call, over every provider list of up to MaxProviders providers.
ProviderLists == {None} \cup {Some(v) : v \in SeqsUpTo(MunicipalitiesProvider, MaxProviders)}
UrlCodes == {"SP", "XX", "35"}

NextUrl == Step(1, UrlCodes, ProviderLists, {SaoPaulo}, {BadJson, JsonObject(SP)})

SpecUrl == Init /\ [][NextUrl]_vars

\* One call, over every list of up to MaxItems municipalities with these names.
Names == { <<"S", "P">>, <<"s", "p">>, <<"S">>,
           <<"S", "A~">>, <<"s", "a~">>, <<"s", "A~">> }
MunicipalityLists ==
    SeqsUpTo({[nome |-> n, codigo_ibge |-> "1"] : n \in Names}, MaxItems)

NextFind == Step(1, {"SP"}, {None}, Names, {JsonArray(v) : v \in MunicipalityLists})

SpecFind == Init /\ [][NextFind]_vars

\* ================================================================ claims
Past(c) == pc[c] \in {"await_body", "done"}
FailureStatus(c) == got[c].tag = "Ok" /\ ~(got[c].val.status \in 200..299)
SuccessStatus(c) == got[c].tag = "Ok" /\ got[c].val.status \in 200..299

\* C1: once the upstream has answered a get_municipalities or a get_state call
\* with a non-success status, the call is over and its result is a returned
\* Err of the application-failure kind carrying that status: not a panic, not
\* an Ok, and no body is read.
InvalidTokenIsApplicationFailure ==
    \A c \in Calls :
        (call[c].fn \in {"get_municipalities", "get_state"} /\ FailureStatus(c))
            => /\ pc[c] = "done"
               /\ result[c].tag = "Err"
               /\ result[c].err.kind = "Application"
               /\ result[c].err.status = got[c].val.status
               /\ text[c] = Pending

InvalidTokenAnswered ==
    \E c, d \in Calls :
        /\ call[c] = [fn |-> "get_municipalities", uf |-> "XX", providers |-> None]
        /\ call[d] = [fn |-> "get_state", code |-> "XX"]
        /\ got[c] = Ok([status |-> 404]) /\ got[d] = Ok([status |-> 404])
        /\ pc[c] = "done" /\ pc[d] = "done"

\* The body of a call's text answer parses into the type the call asks for.
Parses(c) ==
    /\ text[c].tag = "Ok"
    /\ CASE call[c].fn = "get_all_states" -> from_str_VecState(text[c].val).tag = "Ok"
         [] call[c].fn = "get_state" -> from_str_State(text[c].val).tag = "Ok"
         [] OTHER -> from_str_VecMunicipality(text[c].val).tag = "Ok"

\* C2: a get_municipalities, get_all_states or get_state call whose upstream
\* answered with a success status and a body that does not parse ends with a
\* returned Err of a deserialization kind of its own.
DeserializationFailureIsReturned ==
    \A c \in Calls :
        ( /\ pc[c] = "done"
          /\ call[c].fn \in {"get_municipalities", "get_all_states", "get_state"}
          /\ SuccessStatus(c)
          /\ text[c].tag = "Ok"
          /\ ~Parses(c) )
            => /\ result[c].tag = "Err"
               /\ result[c].err.kind = "Deserialization"

\* C5: a call that has started has issued exactly one GET, whatever became of
\* it, and a call that has not started has issued none.
ExactlyOneGet ==
    \A c \in Calls : Len(sent[c]) = IF pc[c] = "idle" THEN 0 ELSE 1

FailedCallsSentOnce ==
    \E c, d \in Calls :
        /\ pc[c] = "done" /\ got[c].tag = "Err" /\ Len(sent[c]) = 1
        /\ pc[d] = "done" /\ FailureStatus(d) /\ Len(sent[d]) = 1

\* C6: whatever the endpoint, the request method returns the transport-error
\* variant wrapping the cause when the GET produced no response, and what
\* from_response returns for the response when it produced one; two calls with
\* the same outcome of their GET hold the same value.
UniformClassification ==
    /\ \A c \in Calls :
          Past(c) => response[c] =
              IF got[c].tag = "Err"
              THEN Err([kind |-> "Transport", cause |-> got[c].err])
              ELSE from_response(got[c].val)
    /\ \A c, d \in Calls :
          (Past(c) /\ Past(d) /\ got[c] = got[d]) => response[c] = response[d]

TwoEndpointsClassified ==
    \E c, d \in Calls :
        /\ call[c].fn = "get_all_states" /\ call[d].fn = "get_state"
        /\ Past(c) /\ Past(d) /\ got[c] = got[d] /\ FailureStatus(c)

\* The result of a call running alone: the stages in order on its own answers.
RunAlone(a, g, t) ==
    LET r == CASE a.fn = "get_all_states" -> get_all_states_request(g)
               [] a.fn = "get_state" -> get_state_request(g)
               [] OTHER -> get_municipalities_request(g)
    IN IF r.tag = "Err" THEN r
       ELSE CASE a.fn = "get_municipalities" -> get_municipalities_body(t)
              [] a.fn = "get_all_states" -> get_all_states_body(t)
              [] a.fn = "get_state" -> get_state_body(t)
              [] OTHER -> find_municipality_by_state_and_name_body(
                              get_municipalities_body(t), a.city_name)

\* C7: under every interleaving of the calls in flight, a finished call holds
\* the result it would have had running alone on the answers it was given, and
\* a started call holds its own service, whose base url is the one it was
\* constructed with.
InterleavingIsInvisible ==
    \A c \in Calls :
        /\ pc[c] = "done" => result[c] = RunAlone(call[c], got[c], text[c])
        /\ pc[c] # "idle" => service[c] = Some([base_url |-> BRASIL_API_URL])
        /\ pc[c] = "idle" => service[c] = None

\* one call failed while another, started before, is still awaiting its body
CallsOverlap ==
    \E c, d \in Calls :
        /\ pc[c] = "await_body"
        /\ pc[d] = "done" /\ result[d].tag = "Err"

\* C8: two finished calls of the same function with the same arguments, given
\* the same answers by the upstream, hold equal results.
SameInputsSameResult ==
    \A c, d \in Calls :
        ( /\ pc[c] = "done" /\ pc[d] = "done"
          /\ call[c] = call[d] /\ got[c] = got[d] /\ text[c] = text[d] )
            => result[c] = result[d]

TwoEqualStateCalls ==
    \E c, d \in Calls :
        /\ c # d
        /\ call[c] = [fn |-> "get_state", code |-> "SP"] /\ call[d] = call[c]
        /\ pc[c] = "done" /\ pc[d] = "done"
        /\ text[c] = Ok(JsonObject(SP)) /\ text[d] = text[c]
        /\ result[c].tag = "Ok" /\ result[c].val.sigla = <<"S", "P">>

\* C10: a finished call ran its stages in order and returned the first failure:
\* after a transport failure or a failure status no body was read, a failed
\* body read or a body that does not parse is a returned Err, and an Ok is
\* returned only when every stage succeeded.
StagesPropagateFirstFailure ==
    \A c \in Calls :
        pc[c] = "done" =>
            /\ (got[c].tag = "Err" \/ FailureStatus(c))
                   => (result[c].tag = "Err" /\ text[c] = Pending)
            /\ (SuccessStatus(c) /\ text[c].tag = "Err") => result[c].tag = "Err"
            /\ (SuccessStatus(c) /\ text[c].tag = "Ok" /\ ~Parses(c))
                   => result[c].tag = "Err"
            /\ result[c].tag = "Ok" => (SuccessStatus(c) /\ Parses(c))

\* The wire token the interface documents for each provider.
WireToken(p) ==
    CASE p = "DadosAbertos" -> "dados-abertos-br"
      [] p = "Gov" -> "gov"
      [] p = "Wikipedia" -> "wikipedia"

\* value is the tokens of the providers ps, in order, a comma between neighbours;
\* empty when ps is None or the empty list.
IsProvidersValue(value, ps) ==
    IF ~ps.some \/ Len(ps.v) = 0 THEN value = <<>>
    ELSE /\ Len(value) = 2 * Len(ps.v) - 1
         /\ \A i \in 1..Len(ps.v) : value[2 * i - 1] = WireToken(ps.v[i])
         /\ \A i \in 1..(Len(ps.v) - 1) : value[2 * i] = ","

MunicipalityFetch(c) ==
    call[c].fn \in {"get_municipalities", "find_municipality_by_state_and_name"}

\* C3: the url of a municipalities fetch carries the parameter `?providers=`
\* and ends with its value: the wire tokens of the listed providers joined by
\* commas in the order given, none dropped, reordered or merged, and the empty
\* string when the list is None or empty.
ProvidersParameter ==
    \A c \in Calls :
        MunicipalityFetch(c) =>
            LET url == sent[c][1]
            IN /\ Len(url) >= 4
               /\ url[4] = "?providers="
               /\ IsProvidersValue(SubSeq(url, 5, Len(url)), call[c].providers)

ProvidersSerialized ==
    \E c \in Calls :
        /\ call[c].fn = "get_municipalities"
        /\ call[c].providers = Some(<<"DadosAbertos", "Wikipedia">>)
        /\ SubSeq(sent[c][1], 4, Len(sent[c][1]))
               = <<"?providers=", "dados-abertos-br", ",", "wikipedia">>

BaseUrls == {BRASIL_API_URL, "http://localhost:8080"}

\* C9: the url a call requests is the default base url followed by
\* /api/ibge/municipios/v1/{uf}?providers={tokens}, /api/ibge/uf/v1 or
\* /api/ibge/uf/v1/{code} with the caller's code as the last path segment, and
\* the service builds the same shape on any other base url.
RequestedUrl ==
    \A c \in Calls :
        pc[c] # "idle" =>
            LET url == sent[c][1]
                a == call[c]
            IN /\ service[c].v.base_url = BRASIL_API_URL
               /\ CASE MunicipalityFetch(c) ->
                          /\ SubSeq(url, 1, 4) = <<BRASIL_API_URL, "/api/ibge/municipios/v1/",
                                                   a.uf, "?providers=">>
                          /\ IsProvidersValue(SubSeq(url, 5, Len(url)), a.providers)
                          /\ \A b \in BaseUrls :
                                SubSeq(get_municipalities_url(IbgeService_new(b), a.uf, a.providers), 1, 4)
                                    = <<b, "/api/ibge/municipios/v1/", a.uf, "?providers=">>
                    [] a.fn = "get_all_states" ->
                          /\ url = <<BRASIL_API_URL, "/api/ibge/uf/v1">>
                          /\ \A b \in BaseUrls :
                                get_all_states_url(IbgeService_new(b)) = <<b, "/api/ibge/uf/v1">>
                    [] a.fn = "get_state" ->
                          /\ url = <<BRASIL_API_URL, "/api/ibge/uf/v1/", a.code>>
                          /\ \A b \in BaseUrls :
                                get_state_url(IbgeService_new(b), a.code)
                                    = <<b, "/api/ibge/uf/v1/", a.code>>

StateUrlRequested ==
    \E c \in Calls :
        /\ call[c] = [fn |-> "get_state", code |-> "35"]
        /\ sent[c] = <<(<<BRASIL_API_URL, "/api/ibge/uf/v1/", "35">>)>>

\* Lower case of a letter, the two non-ASCII letters of the model included.
to_lowercase(ch) ==
    IF ch = "A~" THEN "a~" ELSE to_ascii_lowercase(ch)

EqIgnoreCase(a, b) ==
    /\ Len(a) = Len(b)
    /\ \A i \in 1..Len(a) : to_lowercase(a[i]) = to_lowercase(b[i])

EqIgnoreAsciiCase(a, b) ==
    /\ Len(a) = Len(b)
    /\ \A i \in 1..Len(a) : to_ascii_lowercase(a[i]) = to_ascii_lowercase(b[i])

\* r is Ok(Some(m)) for the first m of the fetched list whose name Eq(name, _)
\* accepts, and Ok(None) when the list has none.
IsFirstMatch(r, list, name, Eq(_, _)) ==
    /\ r.tag = "Ok"
    /\ IF \E i \in 1..Len(list) : Eq(list[i].nome, name)
       THEN /\ r.val.some
            /\ \E i \in 1..Len(list) :
                  /\ r.val.v = list[i]
                  /\ Eq(list[i].nome, name)
                  /\ \A j \in 1..(i - 1) : ~Eq(list[j].nome, name)
       ELSE r.val = None

FoundCall(c) ==
    /\ pc[c] = "done"
    /\ call[c].fn = "find_municipality_by_state_and_name"
    /\ SuccessStatus(c)
    /\ Parses(c)

\* C4: when the fetch succeeded, the lookup returns Ok(Some(m)) for the first
\* municipality of the list whose name equals city_name ignoring letter case,
\* and Ok(None) when no name of the list does.
FindIgnoresLetterCase ==
    \A c \in Calls :
        FoundCall(c) =>
            IsFirstMatch(result[c], from_str_VecMunicipality(text[c].val).val,
                         call[c].city_name, EqIgnoreCase)

\* What the lookup does hold to: the same with the case of ASCII letters only.
FindIgnoresAsciiLetterCase ==
    \A c \in Calls :
        FoundCall(c) =>
            IsFirstMatch(result[c], from_str_VecMunicipality(text[c].val).val,
                         call[c].city_name, EqIgnoreAsciiCase)

====
